---------------------------- MODULE Spec2Model ----------------------------
(***************************************************************************)
(* Git Helper (VS Code extension): the step catalog (steps.ts), the        *)
(* command runner (gitCommands.ts: runGitCommand) and the walkthrough      *)
(* panel (walkthroughProvider.ts: WalkthroughProvider and the script of    *)
(* its webview).                                                           *)
(*                                                                         *)
(* A string is a sequence of tokens.  A token is one character of user or  *)
(* process text (" ", "\n", ";", "o", "e") or a fixed piece of text that   *)
(* neither starts nor ends with whitespace ("commit", "(no output)", ...), *)
(* so that trim, includes(" ") and push act on a string as the code does.  *)
(* An optional value (T | undefined) is a set: {} is undefined, {v} is v.  *)
(***************************************************************************)
EXTENDS Naturals, Sequences, FiniteSets

\* ------------------------------------------------------------------ bounds
\* Messages sent to the handler per behaviour.
MaxInvocations == 2
\* Longest stdout and longest stderr of a process, where the callback is taken alone.
MaxOutLen == 2

\* ------------------------------------------------------------- JS strings
Undefined == {}
Some(v) == {v}
Get(o) == CHOOSE v \in o : TRUE

\* The characters String.prototype.trim strips, among those of the model.
WhiteSpace == {" ", "\n"}

RECURSIVE trimStart(_)
trimStart(s) ==
    IF s = <<>> THEN s
    ELSE IF Head(s) \in WhiteSpace THEN trimStart(Tail(s)) ELSE s

RECURSIVE trimEnd(_)
trimEnd(s) ==
    IF s = <<>> THEN s
    ELSE IF s[Len(s)] \in WhiteSpace THEN trimEnd(SubSeq(s, 1, Len(s) - 1)) ELSE s

\* String.prototype.trim
trim(s) == trimEnd(trimStart(s))

\* a.includes(" ")
includesSpace(a) == \E i \in DOMAIN a : a[i] = " "

\* Array.prototype.join
RECURSIVE join(_, _)
join(parts, sep) ==
    IF parts = <<>> THEN <<>>
    ELSE IF Len(parts) = 1 THEN parts[1]
    ELSE parts[1] \o sep \o join(Tail(parts), sep)

\* a || b on strings: the empty string is falsy
OrElse(a, b) == IF a = <<>> THEN b ELSE a

\* Strings of at most n characters of cs.
Texts(cs, n) == UNION {[1..k -> cs] : k \in 0..n}

\* ------------------------------------------------------------ steps.ts
Arg(t) == <<t>>

NoInput == Undefined

\* Mutant of WALKTHROUGH_STEPS: the fourth step was pasted from the third, id and all.
WALKTHROUGH_STEPS_duplicateId ==
    << [id |-> "check-git",    args |-> <<Arg("--version")>>, requiresInput |-> NoInput],
       [id |-> "init-repo",    args |-> <<Arg("init")>>, requiresInput |-> NoInput],
       [id |-> "check-status", args |-> <<Arg("status")>>, requiresInput |-> NoInput],
       [id |-> "check-status", args |-> <<Arg("status")>>, requiresInput |-> NoInput],
       [id |-> "stage-files",  args |-> <<Arg("add"), Arg(".")>>, requiresInput |-> NoInput],
       [id |-> "commit",       args |-> <<Arg("commit"), Arg("-m")>>,
        requiresInput |-> Some([prompt |-> "Enter your commit message",
                                placeholder |-> "e.g., Add initial project files"])],
       [id |-> "add-remote",   args |-> <<Arg("remote"), Arg("add"), Arg("origin")>>,
        requiresInput |-> Some([prompt |-> "Enter your GitHub repository URL",
                                placeholder |-> "https://github.com/username/my-repo.git"])],
       [id |-> "push",         args |-> <<Arg("push"), Arg("-u"), Arg("origin"), Arg("main")>>,
        requiresInput |-> NoInput],
       [id |-> "pull",         args |-> <<Arg("pull")>>, requiresInput |-> NoInput] >>

WALKTHROUGH_STEPS ==
    << [id |-> "check-git",    args |-> <<Arg("--version")>>, requiresInput |-> NoInput],
       [id |-> "init-repo",    args |-> <<Arg("init")>>, requiresInput |-> NoInput],
       [id |-> "check-status", args |-> <<Arg("status")>>, requiresInput |-> NoInput],
       [id |-> "make-changes", args |-> <<Arg("status")>>, requiresInput |-> NoInput],
       [id |-> "stage-files",  args |-> <<Arg("add"), Arg(".")>>, requiresInput |-> NoInput],
       [id |-> "commit",       args |-> <<Arg("commit"), Arg("-m")>>,
        requiresInput |-> Some([prompt |-> "Enter your commit message",
                                placeholder |-> "e.g., Add initial project files"])],
       [id |-> "add-remote",   args |-> <<Arg("remote"), Arg("add"), Arg("origin")>>,
        requiresInput |-> Some([prompt |-> "Enter your GitHub repository URL",
                                placeholder |-> "https://github.com/username/my-repo.git"])],
       [id |-> "push",         args |-> <<Arg("push"), Arg("-u"), Arg("origin"), Arg("main")>>,
        requiresInput |-> NoInput],
       [id |-> "pull",         args |-> <<Arg("pull")>>, requiresInput |-> NoInput] >>

\* Mutant of find: a lookup that misses falls back on the first step.
find_fallback(catalog, stepId) ==
    IF \E k \in DOMAIN catalog : catalog[k].id = stepId
    THEN Some(catalog[CHOOSE k \in DOMAIN catalog : catalog[k].id = stepId])
    ELSE Some(catalog[1])

\* Array.prototype.find over the catalog: the first step with that id, or undefined
find(catalog, stepId) ==
    IF \E k \in DOMAIN catalog : catalog[k].id = stepId
    THEN Some(catalog[CHOOSE k \in DOMAIN catalog :
                        /\ catalog[k].id = stepId
                        /\ \A j \in 1..(k - 1) : catalog[j].id # stepId])
    ELSE Undefined

\* ------------------------------------------------------------------ state
VARIABLES
    steps,             \* the WALKTHROUGH_STEPS array (steps.ts)
    workspaceFolders,  \* vscode.workspace.workspaceFolders: undefined or an array of paths
    view,              \* WalkthroughProvider._view
    card,              \* the webview's document: per step, its button, status and output
    toExtension,       \* messages posted by the webview, not yet handled
    toWebview,         \* messages posted to the webview, not yet received by its listener
    inv,               \* the calls of _handleMessage that found their step, in order of start
    dropped,           \* the messages _handleMessage returned on without doing anything
    trace,             \* every call made to the host and to child_process, in order
    probe              \* the runner's callback taken alone: its inputs and its result

vars ==
    <<steps, workspaceFolders, view, card, toExtension, toWebview, inv, dropped, trace, probe>>

\* ------------------------------------------------------- calls to the host
Ev(i, kind, data) == [inv |-> i, kind |-> kind, data |-> data]

appendLine(i, text) == Ev(i, "appendLine", text)
show(i) == Ev(i, "show", <<>>)
showErrorMessage(i, text) == Ev(i, "showErrorMessage", text)
showInputBox(i, options) == Ev(i, "showInputBox", options)
execFile(i, file, args, cwd) == Ev(i, "execFile", [file |-> file, args |-> args, cwd |-> cwd])
postMessage(i, message) == Ev(i, "postMessage", message)
showWarningMessage(i, text) == Ev(i, "showWarningMessage", text)
showInformationMessage(i, text) == Ev(i, "showInformationMessage", text)

\* The calls of one kind among evs, in order.
SelectKind(evs, kind) == SelectSeq(evs, LAMBDA e : e.kind = kind)

\* The arguments of the calls evs, in order.
DataOf(evs) == [k \in DOMAIN evs |-> evs[k].data]

\* ------------------------------------------------------- gitCommands.ts
NoFolderMsg ==
    <<"No folder is open in VS Code. Please open a folder first (File > Open Folder).">>

NoOutput == <<"(no output)">>

NoFolder == workspaceFolders = Undefined \/ Len(Get(workspaceFolders)) = 0

cwd == Get(workspaceFolders)[1]

quoteArg(a) == IF includesSpace(a) THEN <<"\"">> \o a \o <<"\"">> ELSE a

displayCmd(args) ==
    <<"git ">> \o join([k \in DOMAIN args |-> quoteArg(args[k])], <<" ">>)

\* runGitCommand up to the point where it waits for the process: the result it
\* resolves with at once (no folder), or undefined when it has started the process
runGitCommandResolved ==
    IF NoFolder THEN Some([success |-> FALSE, output |-> NoFolderMsg]) ELSE Undefined

\* Mutant of runGitCommand: the no-folder branch does not return, and git is started.
runGitCommand_noReturn(i, args) ==
    IF NoFolder
    THEN << appendLine(i, <<"ERROR: ">> \o NoFolderMsg),
            show(i),
            showErrorMessage(i, NoFolderMsg),
            execFile(i, "git", args, <<>>) >>
    ELSE << appendLine(i, <<"> ">> \o displayCmd(args)),
            appendLine(i, <<"  (in: ">> \o cwd \o <<")">>),
            appendLine(i, <<"---">>),
            execFile(i, "git", args, cwd) >>

runGitCommand(i, args) ==
    IF NoFolder
    THEN << appendLine(i, <<"ERROR: ">> \o NoFolderMsg),
            show(i),
            showErrorMessage(i, NoFolderMsg) >>
    ELSE << appendLine(i, <<"> ">> \o displayCmd(args)),
            appendLine(i, <<"  (in: ">> \o cwd \o <<")">>),
            appendLine(i, <<"---">>),
            execFile(i, "git", args, cwd) >>

\* child_process.execFile: how a process ends.  exit is undefined when the process
\* could not be started, else its exit code.
Outcome(exit, stdout, stderr) == [exit |-> exit, stdout |-> stdout, stderr |-> stderr]

\* The error execFile hands to its callback: null iff the process ran and exited 0.
execFileError(args, o) ==
    IF o.exit = Undefined THEN Some([message |-> <<"spawn git ENOENT">>])
    ELSE IF Get(o.exit) # 0
    THEN Some([message |-> <<"Command failed: git ">> \o join(args, <<" ">>)
                           \o <<"\n">> \o o.stderr])
    ELSE Undefined

\* Mutant of callbackResult: anything on stderr counts as a failure.
callbackResult_stderrFails(error, stdout, stderr) ==
    LET output == trim(stdout \o stderr)
    IN  IF error # Undefined \/ stderr # <<>>
        THEN [success |-> FALSE,
              output |-> OrElse(output, IF error # Undefined THEN Get(error).message
                                        ELSE NoOutput)]
        ELSE [success |-> TRUE, output |-> OrElse(output, NoOutput)]

\* Mutant of callbackResult: the captured text is not trimmed.
callbackResult_untrimmed(error, stdout, stderr) ==
    LET output == stdout \o stderr
    IN  IF error # Undefined
        THEN [success |-> FALSE, output |-> OrElse(output, Get(error).message)]
        ELSE [success |-> TRUE, output |-> OrElse(output, NoOutput)]

\* The callback given to execFile: the result it resolves the promise with
callbackResult(error, stdout, stderr) ==
    LET output == trim(stdout \o stderr)
    IN  IF error # Undefined
        THEN [success |-> FALSE, output |-> OrElse(output, Get(error).message)]
        ELSE [success |-> TRUE, output |-> OrElse(output, NoOutput)]

\* Mutant of callbackLog: the error branch returns before the blank line.
callbackLog_noBlankOnError(i, error, stdout, stderr) ==
    LET output == trim(stdout \o stderr)
    IN  IF error # Undefined
        THEN << appendLine(i, <<"ERROR:\n">> \o OrElse(output, Get(error).message)),
                show(i) >>
        ELSE << appendLine(i, OrElse(output, NoOutput)),
                show(i),
                appendLine(i, <<>>) >>

\* Mutant of callbackLog: the blank line is written first, the output after it.
callbackLog_blankFirst(i, error, stdout, stderr) ==
    LET output == trim(stdout \o stderr)
    IN  IF error # Undefined
        THEN << appendLine(i, <<>>),
                appendLine(i, <<"ERROR:\n">> \o OrElse(output, Get(error).message)),
                show(i) >>
        ELSE << appendLine(i, <<>>),
                appendLine(i, OrElse(output, NoOutput)),
                show(i) >>

\* Mutant of callbackLog: the success branch does not show the output channel.
callbackLog_noShowOnSuccess(i, error, stdout, stderr) ==
    LET output == trim(stdout \o stderr)
    IN  IF error # Undefined
        THEN << appendLine(i, <<"ERROR:\n">> \o OrElse(output, Get(error).message)),
                show(i),
                appendLine(i, <<>>) >>
        ELSE << appendLine(i, OrElse(output, NoOutput)),
                appendLine(i, <<>>) >>

\* The callback given to execFile: what it writes to the output channel
callbackLog(i, error, stdout, stderr) ==
    LET output == trim(stdout \o stderr)
    IN  IF error # Undefined
        THEN << appendLine(i, <<"ERROR:\n">> \o OrElse(output, Get(error).message)),
                show(i),
                appendLine(i, <<>>) >>
        ELSE << appendLine(i, OrElse(output, NoOutput)),
                show(i),
                appendLine(i, <<>>) >>

\* ------------------------------------------------ walkthroughProvider.ts
\* "Cancelled - no input provided." is written with an em dash in the source.
CancelledMsg == <<"Cancelled - no input provided.">>

StepIds == {steps[k].id : k \in DOMAIN steps}

\* this._view?.webview.postMessage(...): nothing is posted while _view is undefined
_sendStatusToWebview(i, stepId, status) ==
    IF view = Undefined THEN <<>>
    ELSE <<postMessage(i, [type |-> "status", stepId |-> stepId, status |-> status])>>

_sendResultToWebview(i, stepId, result) ==
    IF view = Undefined THEN <<>>
    ELSE <<postMessage(i, [type |-> "result", stepId |-> stepId,
                           success |-> result.success, output |-> result.output])>>

\* Mutant of copyArgs: the copy misses the first element.
copyArgs_short(step) == Tail(step.args)

\* let args = [...step.args]
copyArgs(step) == step.args

\* if (step.requiresInput)
needsInput(step) == step.requiresInput # Undefined

\* Mutant of noInput: the answer is not trimmed before it is compared with "".
noInput_untrimmed(userInput) == userInput = Undefined \/ Get(userInput) = <<>>

\* userInput === undefined || userInput.trim() === ""
noInput(userInput) == userInput = Undefined \/ trim(Get(userInput)) = <<>>

\* Mutant of pushInput: the answer is trimmed before it is appended.
pushInput_trimmed(args, userInput) == Append(args, trim(Get(userInput)))

\* args.push(userInput)
pushInput(args, userInput) == Append(args, Get(userInput))

\* Mutant of sharesArray: let args = step.args, the array of the catalog itself.
sharesArray_alias(step) == TRUE

\* Whether the array made by [...step.args] is the array step.args itself: a spread
\* makes a new array
sharesArray(step) == FALSE

\* The catalog after args.push(userInput), where args was made from the step stepId
stepsAfterPush(catalog, stepId, args) ==
    [k \in DOMAIN catalog |->
        IF catalog[k].id = stepId /\ sharesArray(catalog[k])
        THEN [catalog[k] EXCEPT !.args = args]
        ELSE catalog[k]]

\* An entry of inv: one call of _handleMessage that found its step.  trigger is the
\* stepId of the message, stepId the id of the step found, answer what the input box
\* returned (undefined too when none was shown).
Invocation(trigger, stepId, args, pc, answer, result) ==
    [trigger |-> trigger, stepId |-> stepId, args |-> args, pc |-> pc,
     answer |-> answer, result |-> result]

\* Mutant of runAndReport: the result of a call that resolved at once is not posted.
runAndReport_unreported(i, stepId, args) ==
    _sendStatusToWebview(i, stepId, "running") \o runGitCommand(i, args)

\* Mutant of runAndReport: the "running" notification is sent once the runner has
\* been called.
runAndReport_statusLate(i, stepId, args) ==
    runGitCommand(i, args)
    \o _sendStatusToWebview(i, stepId, "running")
    \o (IF runGitCommandResolved = Undefined THEN <<>>
        ELSE _sendResultToWebview(i, stepId, Get(runGitCommandResolved)))

\* The host calls made by the handler from the "running" notification to the point
\* where runGitCommand waits for the process (or has resolved at once).
runAndReport(i, stepId, args) ==
    _sendStatusToWebview(i, stepId, "running")
    \o runGitCommand(i, args)
    \o (IF runGitCommandResolved = Undefined THEN <<>>
        ELSE _sendResultToWebview(i, stepId, Get(runGitCommandResolved)))

pcAfterRun == IF runGitCommandResolved = Undefined THEN "Executing" ELSE "Completed"

\* The effect of a handler's calls on the two histories.
Emit(evs) ==
    /\ trace' = trace \o evs
    /\ toWebview' = toWebview \o DataOf(SelectKind(evs, "postMessage"))

\* Messages the webview script never sends but the channel may carry.
ForeignMessages ==
    { [type |-> "runStep", stepId |-> "no-such-step"],
      [type |-> "refresh", stepId |-> "commit"] }

\* Every message the channel may carry.
Messages == {[type |-> "runStep", stepId |-> s] : s \in StepIds} \cup ForeignMessages

\* What the user may answer to an input box: Escape, or a text.
Answers ==
    { Undefined, Some(<<>>), Some(<<" ">>), Some(<<";">>), Some(<<" ", ";", " ">>) }

\* What the user answers where only the panel's buttons are looked at.
PanelAnswers == {Undefined, Some(<<" ", ";", " ">>)}

\* How the process of a step may end.
RunOutcomes ==
    { Outcome(Some(0), <<"o", "\n">>, <<>>),
      Outcome(Some(1), <<>>, <<"e", "\n">>) }

FreshCard == [disabled |-> FALSE, status |-> "", output |-> Undefined]

\* resolveWebviewView: called by the host when the panel is first opened
resolveWebviewView ==
    /\ view = Undefined
    /\ view' = Some("webviewView")
    /\ card' = [s \in StepIds |-> FreshCard]
    /\ UNCHANGED <<steps, workspaceFolders, toExtension, toWebview, inv, dropped, trace, probe>>

\* The webview script's runStep(stepId): a click on the step's button
runStep(stepId) ==
    /\ view # Undefined
    /\ stepId \in DOMAIN card
    /\ ~card[stepId].disabled
    /\ Len(inv) + Len(dropped) + Len(toExtension) < MaxInvocations
    /\ card' = [card EXCEPT ![stepId].disabled = TRUE]
    /\ toExtension' = Append(toExtension, [type |-> "runStep", stepId |-> stepId])
    /\ UNCHANGED <<steps, workspaceFolders, view, toWebview, inv, dropped, trace, probe>>

\* _handleMessage(message) from its start to its first wait (or its return)
_handleMessage(message) ==
    LET found == find(steps, message.stepId)
        i == Len(inv) + 1
    IN  IF message.type # "runStep" \/ found = Undefined
        THEN /\ dropped' = Append(dropped, message)
             /\ UNCHANGED <<inv, trace, toWebview>>
        ELSE LET step == Get(found)
                 args == copyArgs(step)
             IN  /\ UNCHANGED dropped
                 /\ IF needsInput(step)
                    THEN /\ inv' = Append(inv, Invocation(message.stepId, step.id, args,
                                                          "AwaitingInput", Undefined,
                                                          Undefined))
                         /\ Emit(<<showInputBox(i, Get(step.requiresInput))>>)
                    ELSE /\ inv' = Append(inv, Invocation(message.stepId, step.id, args,
                                                          pcAfterRun, Undefined,
                                                          runGitCommandResolved))
                         /\ Emit(runAndReport(i, step.id, args))

\* webview.onDidReceiveMessage: a message arrives, whoever sent it, and is handled
onDidReceiveMessage(message) ==
    /\ view # Undefined
    /\ Len(inv) + Len(dropped) < MaxInvocations
    /\ _handleMessage(message)
    /\ UNCHANGED <<steps, workspaceFolders, view, card, toExtension, probe>>

\* webview.onDidReceiveMessage: the oldest message a button has sent arrives
onDidReceiveClick ==
    /\ toExtension # <<>>
    /\ toExtension' = Tail(toExtension)
    /\ _handleMessage(Head(toExtension))
    /\ UNCHANGED <<steps, workspaceFolders, view, card, probe>>

\* Mutant of inputAnswered: "running" is sent as soon as the input box closes, before
\* the answer is looked at.
inputAnswered_statusFirst(i, userInput) ==
    /\ inv[i].pc = "AwaitingInput"
    /\ IF noInput(userInput)
       THEN LET result == [success |-> FALSE, output |-> CancelledMsg]
            IN  /\ inv' = [inv EXCEPT ![i].pc = "Completed", ![i].answer = userInput,
                                      ![i].result = Some(result)]
                /\ Emit(_sendStatusToWebview(i, inv[i].stepId, "running")
                        \o _sendResultToWebview(i, inv[i].stepId, result))
                /\ UNCHANGED steps
       ELSE LET args == pushInput(inv[i].args, userInput)
            IN  /\ inv' = [inv EXCEPT ![i].pc = pcAfterRun, ![i].answer = userInput,
                                      ![i].args = args,
                                      ![i].result = runGitCommandResolved]
                /\ steps' = stepsAfterPush(steps, inv[i].stepId, args)
                /\ Emit(runAndReport(i, inv[i].stepId, args))
    /\ UNCHANGED <<workspaceFolders, view, card, toExtension, dropped, probe>>

\* _handleMessage from the answer to the input box to its next wait (or its return)
inputAnswered(i, userInput) ==
    /\ inv[i].pc = "AwaitingInput"
    /\ IF noInput(userInput)
       THEN LET result == [success |-> FALSE, output |-> CancelledMsg]
            IN  /\ inv' = [inv EXCEPT ![i].pc = "Completed", ![i].answer = userInput,
                                      ![i].result = Some(result)]
                /\ Emit(_sendResultToWebview(i, inv[i].stepId, result))
                /\ UNCHANGED steps
       ELSE LET args == pushInput(inv[i].args, userInput)
            IN  /\ inv' = [inv EXCEPT ![i].pc = pcAfterRun, ![i].answer = userInput,
                                      ![i].args = args,
                                      ![i].result = runGitCommandResolved]
                /\ steps' = stepsAfterPush(steps, inv[i].stepId, args)
                /\ Emit(runAndReport(i, inv[i].stepId, args))
    /\ UNCHANGED <<workspaceFolders, view, card, toExtension, dropped, probe>>

\* Mutant of processEnded: the promise is rejected when the process fails, and the
\* handler ends on the exception without a result.
processEnded_rejects(i, o) ==
    /\ inv[i].pc = "Executing"
    /\ LET error == execFileError(inv[i].args, o)
           result == callbackResult(error, o.stdout, o.stderr)
       IN  IF error # Undefined
           THEN /\ inv' = [inv EXCEPT ![i].pc = "Rejected"]
                /\ Emit(callbackLog(i, error, o.stdout, o.stderr))
           ELSE /\ inv' = [inv EXCEPT ![i].pc = "Completed", ![i].result = Some(result)]
                /\ Emit(callbackLog(i, error, o.stdout, o.stderr)
                        \o _sendResultToWebview(i, inv[i].stepId, result))
    /\ UNCHANGED <<steps, workspaceFolders, view, card, toExtension, dropped, probe>>

\* Mutant of processEnded: the result is posted under the id of the step that was
\* started last, as if the handler kept the current step in a field.
processEnded_lastStep(i, o) ==
    /\ inv[i].pc = "Executing"
    /\ LET error == execFileError(inv[i].args, o)
           result == callbackResult(error, o.stdout, o.stderr)
       IN  /\ inv' = [inv EXCEPT ![i].pc = "Completed", ![i].result = Some(result)]
           /\ Emit(callbackLog(i, error, o.stdout, o.stderr)
                   \o _sendResultToWebview(i, inv[Len(inv)].stepId, result))
    /\ UNCHANGED <<steps, workspaceFolders, view, card, toExtension, dropped, probe>>

\* The process ends: execFile's callback, then the rest of _handleMessage
processEnded(i, o) ==
    /\ inv[i].pc = "Executing"
    /\ LET error == execFileError(inv[i].args, o)
           result == callbackResult(error, o.stdout, o.stderr)
       IN  /\ inv' = [inv EXCEPT ![i].pc = "Completed", ![i].result = Some(result)]
           /\ Emit(callbackLog(i, error, o.stdout, o.stderr)
                   \o _sendResultToWebview(i, inv[i].stepId, result))
    /\ UNCHANGED <<steps, workspaceFolders, view, card, toExtension, dropped, probe>>

\* Mutant of webviewReceives: the button is enabled again on the status message too.
webviewReceives_enablesOnStatus ==
    /\ toWebview # <<>>
    /\ toWebview' = Tail(toWebview)
    /\ LET message == Head(toWebview)
           s == message.stepId
       IN  IF s \notin DOMAIN card THEN UNCHANGED card
           ELSE IF message.type = "status"
           THEN card' = [card EXCEPT ![s].disabled = FALSE, ![s].status = "Running..."]
           ELSE IF message.type = "result"
           THEN card' = [card EXCEPT
                           ![s].disabled = FALSE,
                           ![s].status = IF message.success THEN "Success!"
                                         ELSE "Error (see output below)",
                           ![s].output = Some(message.output)]
           ELSE UNCHANGED card
    /\ UNCHANGED <<steps, workspaceFolders, view, toExtension, inv, dropped, trace, probe>>

\* The webview script's message listener
webviewReceives ==
    /\ toWebview # <<>>
    /\ toWebview' = Tail(toWebview)
    /\ LET message == Head(toWebview)
           s == message.stepId
       IN  IF s \notin DOMAIN card THEN UNCHANGED card
           ELSE IF message.type = "status"
           THEN card' = [card EXCEPT ![s].status = "Running..."]
           ELSE IF message.type = "result"
           THEN card' = [card EXCEPT
                           ![s].disabled = FALSE,
                           ![s].status = IF message.success THEN "Success!"
                                         ELSE "Error (see output below)",
                           ![s].output = Some(message.output)]
           ELSE UNCHANGED card
    /\ UNCHANGED <<steps, workspaceFolders, view, toExtension, inv, dropped, trace, probe>>

\* ------------------------------------------------------------ extension.ts
\* The quick action commands that ask for nothing: the command, the arguments it
\* gives to runGitCommand and the message it shows on success.  (The message of
\* gitHelper.status is written with an em dash in the source.)
QuickAction(command, args, done) == [command |-> command, args |-> args, done |-> done]

QuickActions ==
    { QuickAction("gitHelper.status", <<Arg("status")>>,
                  <<"Git status - check the Output panel for details.">>),
      QuickAction("gitHelper.add", <<Arg("add"), Arg(".")>>,
                  <<"All files staged successfully!">>),
      QuickAction("gitHelper.push", <<Arg("push")>>, <<"Pushed to remote successfully!">>),
      QuickAction("gitHelper.pull", <<Arg("pull")>>, <<"Pulled latest changes!">>) }

CommitPrompt ==
    [prompt |-> "Enter your commit message", placeholder |-> "e.g., Fix login button alignment"]

\* "Commit cancelled - no message provided." is written with an em dash in the source.
CommitCancelledMsg == <<"Commit cancelled - no message provided.">>

committedMsg(message) == <<"Committed: \"">> \o message \o <<"\"">>

\* !message: undefined and the empty string are falsy, any other string is truthy
noMessage(message) == message = Undefined \/ Get(message) = <<>>

\* The message a command shows when its result is a success.
doneMsg(i) ==
    IF inv[i].trigger = "gitHelper.commit" THEN committedMsg(Get(inv[i].answer))
    ELSE (CHOOSE c \in QuickActions : c.command = inv[i].trigger).done

\* if (result.success) { vscode.window.showInformationMessage(...) }
afterCommand(i, result, done) ==
    IF result.success THEN <<showInformationMessage(i, done)>> ELSE <<>>

\* A command's callback from the call of runGitCommand to the point where it waits
\* for the process (or has its result at once).
runCommand(i, args, done) ==
    runGitCommand(i, args)
    \o (IF runGitCommandResolved = Undefined THEN <<>>
        ELSE afterCommand(i, Get(runGitCommandResolved), done))

pcAfterCommand == IF runGitCommandResolved = Undefined THEN "CommandExecuting" ELSE "Completed"

\* gitHelper.status, gitHelper.add, gitHelper.push, gitHelper.pull: the callback from
\* its start to its wait for the process
quickAction(c) ==
    /\ Len(inv) + Len(dropped) < MaxInvocations
    /\ inv' = Append(inv, Invocation(c.command, c.command, c.args, pcAfterCommand, Undefined,
                                     runGitCommandResolved))
    /\ Emit(runCommand(Len(inv) + 1, c.args, c.done))
    /\ UNCHANGED <<steps, workspaceFolders, view, card, toExtension, dropped, probe>>

\* gitHelper.commit: the callback from its start to its wait for the input box
commitCommand ==
    /\ Len(inv) + Len(dropped) < MaxInvocations
    /\ inv' = Append(inv, Invocation("gitHelper.commit", "gitHelper.commit", <<>>,
                                     "CommandAwaitingInput", Undefined, Undefined))
    /\ Emit(<<showInputBox(Len(inv) + 1, CommitPrompt)>>)
    /\ UNCHANGED <<steps, workspaceFolders, view, card, toExtension, dropped, probe>>

\* gitHelper.commit: from the answer to the input box to the wait for the process
\* (or the return)
messageAnswered(i, message) ==
    /\ inv[i].pc = "CommandAwaitingInput"
    /\ IF noMessage(message)
       THEN /\ inv' = [inv EXCEPT ![i].pc = "Completed", ![i].answer = message]
            /\ Emit(<<showWarningMessage(i, CommitCancelledMsg)>>)
       ELSE LET args == <<Arg("commit"), Arg("-m"), Get(message)>>
            IN  /\ inv' = [inv EXCEPT ![i].pc = pcAfterCommand, ![i].answer = message,
                                      ![i].args = args,
                                      ![i].result = runGitCommandResolved]
                /\ Emit(runCommand(i, args, committedMsg(Get(message))))
    /\ UNCHANGED <<steps, workspaceFolders, view, card, toExtension, dropped, probe>>

\* The process of a command ends: execFile's callback, then the rest of the command
commandEnded(i, o) ==
    /\ inv[i].pc = "CommandExecuting"
    /\ LET error == execFileError(inv[i].args, o)
           result == callbackResult(error, o.stdout, o.stderr)
       IN  /\ inv' = [inv EXCEPT ![i].pc = "Completed", ![i].result = Some(result)]
           /\ Emit(callbackLog(i, error, o.stdout, o.stderr)
                   \o afterCommand(i, result, doneMsg(i)))
    /\ UNCHANGED <<steps, workspaceFolders, view, card, toExtension, dropped, probe>>

\* The callback of execFile taken alone, on a process that ended as probe.o
probeCallback ==
    /\ probe.pc = "running"
    /\ LET error == execFileError(probe.args, probe.o)
       IN  probe' = [pc |-> "resolved", args |-> probe.args, o |-> probe.o,
                     result |-> callbackResult(error, probe.o.stdout, probe.o.stderr),
                     log |-> callbackLog(0, error, probe.o.stdout, probe.o.stderr)]
    /\ UNCHANGED <<steps, workspaceFolders, view, card, toExtension, toWebview, inv, dropped,
                   trace>>

\* ---------------------------------------------------------- specifications
Folders == {Undefined, Some(<<>>), Some(<< <<"/w1">>, <<"/w2">> >>)}

OutChars == {"o", " ", "\n"}

\* Every way a process may end with at most MaxOutLen characters on each stream.
Outcomes ==
    { Outcome(Undefined, <<>>, <<>>),
      Outcome(Some(0), <<"On branch main">>, <<>>),
      Outcome(Some(1), <<>>, <<"fatal: not a git repository">>) }
    \cup {Outcome(Some(c), out, err) : c \in {0, 1, 128},
                                       out \in Texts(OutChars, MaxOutLen),
                                       err \in Texts(OutChars, MaxOutLen)}

NoProbe == [pc |-> "off"]

InitHost ==
    /\ steps = WALKTHROUGH_STEPS
    /\ workspaceFolders \in Folders
    /\ view = Undefined
    /\ card = <<>>
    /\ toExtension = <<>>
    /\ toWebview = <<>>
    /\ inv = <<>>
    /\ dropped = <<>>
    /\ trace = <<>>

Init == InitHost /\ probe = NoProbe

\* The controller under any messages.
Next ==
    \/ resolveWebviewView
    \/ \E message \in Messages : onDidReceiveMessage(message)
    \/ \E i \in DOMAIN inv : \E userInput \in Answers : inputAnswered(i, userInput)
    \/ \E i \in DOMAIN inv : \E o \in RunOutcomes : processEnded(i, o)

Spec == Init /\ [][Next]_vars

\* The controller under the messages of the panel's buttons, and the panel.
NextPanel ==
    \/ resolveWebviewView
    \/ \E stepId \in StepIds : runStep(stepId)
    \/ onDidReceiveClick
    \/ \E i \in DOMAIN inv : \E userInput \in PanelAnswers : inputAnswered(i, userInput)
    \/ \E i \in DOMAIN inv : \E o \in RunOutcomes : processEnded(i, o)
    \/ webviewReceives

SpecPanel == Init /\ [][NextPanel]_vars

\* The callback of execFile on every outcome.
InitRunner ==
    /\ InitHost
    /\ probe \in {[pc |-> "running", args |-> <<Arg("status")>>, o |-> o] : o \in Outcomes}

NextRunner == probeCallback

SpecRunner == InitRunner /\ [][NextRunner]_vars

\* The quick action commands, and the panel beside them.
CommandsMessages == {[type |-> "runStep", stepId |-> s] : s \in {"check-status", "commit"}}

\* What the user may answer to the input box of gitHelper.commit.
CommitAnswers == {Undefined, Some(<<>>), Some(<<" ">>), Some(<<";">>)}

NextCommands ==
    \/ resolveWebviewView
    \/ \E message \in CommandsMessages : onDidReceiveMessage(message)
    \/ \E i \in DOMAIN inv : \E userInput \in PanelAnswers : inputAnswered(i, userInput)
    \/ \E i \in DOMAIN inv : \E o \in RunOutcomes : processEnded(i, o)
    \/ \E c \in QuickActions : quickAction(c)
    \/ commitCommand
    \/ \E i \in DOMAIN inv : \E message \in CommitAnswers : messageAnswered(i, message)
    \/ \E i \in DOMAIN inv : \E o \in RunOutcomes : commandEnded(i, o)

SpecCommands == Init /\ [][NextCommands]_vars

\* The controller when every input box is answered and every process ends.
LiveMessages ==
    {[type |-> "runStep", stepId |-> s] : s \in {"check-git", "commit"}}
    \cup {[type |-> "runStep", stepId |-> "no-such-step"]}

LiveAnswers == {Undefined, Some(<<" ">>), Some(<<";">>)}

NextLive ==
    \/ resolveWebviewView
    \/ \E message \in LiveMessages : onDidReceiveMessage(message)
    \/ \E i \in DOMAIN inv : \E userInput \in LiveAnswers : inputAnswered(i, userInput)
    \/ \E i \in DOMAIN inv : \E o \in RunOutcomes : processEnded(i, o)

\* The user answers or dismisses every input box; every process started ends.
Fairness ==
    \A i \in 1..MaxInvocations :
        /\ WF_vars(i \in DOMAIN inv /\ \E userInput \in LiveAnswers : inputAnswered(i, userInput))
        /\ WF_vars(i \in DOMAIN inv /\ \E o \in RunOutcomes : processEnded(i, o))

SpecLive == Init /\ [][NextLive]_vars /\ Fairness

\* ------------------------------------------------------ reading the trace
\* The calls made on behalf of invocation i, in order.
EventsOf(evs, i) == SelectSeq(evs, LAMBDA e : e.inv = i)

KindsOf(evs) == [k \in DOMAIN evs |-> evs[k].kind]

\* The messages invocation i has posted to the webview, in order.
PostsOf(i) == DataOf(SelectKind(EventsOf(trace, i), "postMessage"))

\* The lines invocation i has appended to the output channel, in order.
LinesOf(i) == DataOf(SelectKind(EventsOf(trace, i), "appendLine"))

\* The processes invocation i has started.
SpawnsOf(i) == DataOf(SelectKind(EventsOf(trace, i), "execFile"))

\* The step of the catalog as shipped that has this id.
Shipped(stepId) == Get(find(WALKTHROUGH_STEPS, stepId))

DeclaresInput(i) == Shipped(inv[i].stepId).requiresInput # Undefined

\* A text with nothing but whitespace in it (the empty text too).
Blank(text) == \A k \in DOMAIN text : text[k] \in WhiteSpace

\* Invocation i was answered by Escape or by a blank text.
Cancelled(i) ==
    /\ DeclaresInput(i)
    /\ inv[i].pc # "AwaitingInput"
    /\ (inv[i].answer = Undefined \/ Blank(Get(inv[i].answer)))

\* Invocation i was answered by a text that is not blank.
Accepted(i) ==
    /\ DeclaresInput(i)
    /\ inv[i].pc # "AwaitingInput"
    /\ inv[i].answer # Undefined
    /\ ~Blank(Get(inv[i].answer))

ResultMessage(stepId, success, output) ==
    [type |-> "result", stepId |-> stepId, success |-> success, output |-> output]

RunningMessage(stepId) == [type |-> "status", stepId |-> stepId, status |-> "running"]

\* Invocation i has called runGitCommand.
ReachedRunner(i) ==
    /\ inv[i].pc # "AwaitingInput"
    /\ DeclaresInput(i) => Accepted(i)

ShippedIds == {WALKTHROUGH_STEPS[k].id : k \in DOMAIN WALKTHROUGH_STEPS}

\* ------------------------------------------------------------------ claims
C1_State ==
    \A i \in DOMAIN inv :
        Cancelled(i) =>
            /\ inv[i].pc = "Completed"
            /\ inv[i].result = Some([success |-> FALSE, output |-> CancelledMsg])
            /\ KindsOf(EventsOf(trace, i)) = <<"showInputBox", "postMessage">>
            /\ PostsOf(i) = <<ResultMessage(inv[i].stepId, FALSE, CancelledMsg)>>
            /\ SpawnsOf(i) = <<>>
            /\ LinesOf(i) = <<>>

\* C1: an invocation of a step with an input request whose prompt is cancelled or
\* answered by an empty or all-whitespace text ends with the result
\* {success: false, "Cancelled - no input provided."}; it has started no process
\* and appended no line to the output channel: all it did is show the input box
\* and post that result.
C1_CancelEndsWithoutRun == []C1_State

\* C1 witness: with a folder open, a prompt answered by a single space has ended.
C1_Witness ==
    /\ ~NoFolder
    /\ \E i \in DOMAIN inv : Cancelled(i) /\ inv[i].answer = Some(<<" ">>)

C2_State ==
    /\ toWebview = DataOf(SelectKind(trace, "postMessage"))
    /\ \A k \in DOMAIN trace : trace[k].inv \in DOMAIN inv
    /\ \A i \in DOMAIN inv :
        LET posts == PostsOf(i)
            running == RunningMessage(inv[i].trigger)
            IsResult(m) == m.type = "result" /\ m.stepId = inv[i].trigger
        IN  CASE inv[i].pc = "AwaitingInput" -> posts = <<>>
              [] inv[i].pc = "Executing" -> posts = <<running>>
              [] inv[i].pc = "Completed" ->
                    \/ Len(posts) = 1 /\ IsResult(posts[1])
                    \/ Len(posts) = 2 /\ posts[1] = running /\ IsResult(posts[2])

\* C2: the messages an invocation posts are, in order, at most one "running"
\* status and then exactly one result once it has completed (none before), each
\* with the stepId of the message that started the invocation; the channel to the
\* webview carries exactly the posted messages, in the order they were posted.
C2_OneRunningThenOneResult == []C2_State

\* C2 witness: one invocation has completed with "running" then a result, another
\* with a result alone.
C2_Witness ==
    \E i, j \in DOMAIN inv :
        /\ inv[i].pc = "Completed" /\ Len(PostsOf(i)) = 2
        /\ inv[j].pc = "Completed" /\ Len(PostsOf(j)) = 1

\* C3 as claimed: with no folder open, every invocation that has ended, whatever
\* was answered to its prompt, has the result {success: false, <no folder open>}
\* and has started no process.
C3_Original ==
    NoFolder =>
        \A i \in DOMAIN inv :
            inv[i].pc = "Completed" =>
                /\ inv[i].result = Some([success |-> FALSE, output |-> NoFolderMsg])
                /\ SpawnsOf(i) = <<>>

C3_State ==
    NoFolder =>
        /\ SelectKind(trace, "execFile") = <<>>
        /\ \A i \in DOMAIN inv :
            /\ inv[i].pc # "Executing"
            /\ ReachedRunner(i) =>
                /\ inv[i].result = Some([success |-> FALSE, output |-> NoFolderMsg])
                /\ PostsOf(i) = << RunningMessage(inv[i].stepId),
                                   ResultMessage(inv[i].stepId, FALSE, NoFolderMsg) >>
            /\ Cancelled(i) =>
                inv[i].result = Some([success |-> FALSE, output |-> CancelledMsg])

\* C3 (amended): with no folder open no invocation starts a process; an invocation
\* that reaches the runner (a step without an input request, or a prompt answered
\* by a text that is not blank) ends with {success: false, <no folder open>}, and
\* one whose prompt is cancelled or answered blank ends with the cancellation
\* message instead.
C3_NoFolderNoProcess == []C3_State

\* C3 witness: with no folder open, a prompt answered by " ; " has ended with the
\* no-folder message and another invocation has been cancelled.
C3_Witness ==
    /\ NoFolder
    /\ \E i, j \in DOMAIN inv :
        /\ Accepted(i) /\ inv[i].pc = "Completed"
        /\ inv[i].result = Some([success |-> FALSE, output |-> NoFolderMsg])
        /\ Cancelled(j)

C4_State ==
    /\ \A i \in DOMAIN inv : inv[i].trigger \in ShippedIds
    /\ \A k \in DOMAIN trace : trace[k].inv \in DOMAIN inv
    /\ \A k \in DOMAIN toWebview : toWebview[k].stepId \in ShippedIds

C4_Step ==
    dropped' # dropped =>
        UNCHANGED <<steps, workspaceFolders, view, card, toExtension, toWebview, inv, trace>>

\* C4: a message whose stepId is not in the catalog starts no invocation (every
\* invocation, every call to the host and every posted message belongs to a
\* message with a catalog id), and handling it changes nothing: not the catalog,
\* not the controller's field, not the invocations, no prompt, no process, no
\* line in the output channel, no message to the webview.
C4_UnknownIdIsDropped == []C4_State /\ [][C4_Step]_vars

\* C4 witness: a message with an unknown id has been handled while an invocation
\* was waiting for its process.
C4_Witness ==
    /\ \E k \in DOMAIN dropped :
        dropped[k] = [type |-> "runStep", stepId |-> "no-such-step"]
    /\ \E i \in DOMAIN inv : inv[i].pc = "Executing"

C5_State ==
    \A i \in DOMAIN inv :
        Accepted(i) =>
            LET template == Shipped(inv[i].stepId).args
                X == Get(inv[i].answer)
            IN  /\ inv[i].args = template \o <<X>>
                /\ Len(inv[i].args) = Len(template) + 1
                /\ ~NoFolder =>
                    SpawnsOf(i) = <<[file |-> "git", args |-> template \o <<X>>,
                                     cwd |-> cwd]>>

\* C5: for a step with an input request and an answer X that is not blank, the
\* arguments given to the runner, and by it to execFile, are the step's template
\* followed by the one element X as typed: not trimmed, not quoted, not split.
C5_InputIsOneOpaqueArgument == []C5_State

\* C5 witness: git was started for the commit step with the answer " ; ".
C5_Witness ==
    /\ ~NoFolder
    /\ \E i \in DOMAIN inv :
        /\ inv[i].stepId = "commit"
        /\ inv[i].answer = Some(<<" ", ";", " ">>)
        /\ SpawnsOf(i) =
            <<[file |-> "git", args |-> <<Arg("commit"), Arg("-m"), <<" ", ";", " ">> >>,
               cwd |-> cwd]>>

C6_State ==
    \A i \in DOMAIN inv :
        ~DeclaresInput(i) =>
            LET template == Shipped(inv[i].stepId).args
                spawns == SpawnsOf(i)
            IN  /\ inv[i].pc # "AwaitingInput"
                /\ SelectKind(EventsOf(trace, i), "showInputBox") = <<>>
                /\ inv[i].answer = Undefined
                /\ inv[i].args = template
                /\ \A k \in DOMAIN spawns : spawns[k].args = template

\* C6: an invocation of a step without an input request never waits for input (no
\* input box is shown for it) and the arguments it gives to the runner, and the
\* runner to execFile, are the step's template, element for element.
C6_NoInputNoPrompt == []C6_State

\* C6 witness: git was started for the push step with its four arguments.
C6_Witness ==
    \E i \in DOMAIN inv :
        /\ inv[i].stepId = "push"
        /\ inv[i].pc = "Executing"
        /\ Len(SpawnsOf(i)) = 1
        /\ Len(SpawnsOf(i)[1].args) = 4

\* The process of the probe ended with exit code 0.
ExitedZero == probe.o.exit = Some(0)

C7_State ==
    probe.pc = "resolved" => (probe.result.success <=> ExitedZero)

\* C7: the result of a runner call that started its process has success = true if
\* and only if the process exited with code 0: a non-zero exit code, and a process
\* that could not be started, give success = false, whatever was written to stdout
\* and stderr.
C7_SuccessIffExitZero == []C7_State

\* C7 witness: a process that wrote to stderr and exited 0 was reported a success.
C7_Witness ==
    /\ probe.pc = "resolved"
    /\ ExitedZero
    /\ probe.o.stderr = <<"o", "\n">>
    /\ probe.result.success

\* t is s without its leading and trailing whitespace.
IsTrimOf(t, s) ==
    \E a, b \in 0..Len(s) :
        /\ a + b <= Len(s)
        /\ t = SubSeq(s, a + 1, Len(s) - b)
        /\ \A k \in 1..a : s[k] \in WhiteSpace
        /\ \A k \in (Len(s) - b + 1)..Len(s) : s[k] \in WhiteSpace
        /\ t # <<>> => (t[1] \notin WhiteSpace /\ t[Len(t)] \notin WhiteSpace)

OnBranchMain == Outcome(Some(0), <<"On branch main">>, <<>>)

NotARepository == Outcome(Some(1), <<>>, <<"fatal: not a git repository">>)

C8_State ==
    probe.pc = "resolved" =>
        LET captured == probe.o.stdout \o probe.o.stderr
            outputText == probe.result.output
        IN  /\ ~Blank(captured) => IsTrimOf(outputText, captured)
            /\ (Blank(captured) /\ ExitedZero) => outputText = NoOutput
            /\ (Blank(captured) /\ ~ExitedZero) =>
                /\ outputText # <<>>
                /\ outputText = Get(execFileError(probe.args, probe.o)).message
            /\ probe.o = OnBranchMain =>
                probe.result = [success |-> TRUE, output |-> <<"On branch main">>]
            /\ probe.o = NotARepository =>
                probe.result = [success |-> FALSE,
                                output |-> <<"fatal: not a git repository">>]

\* C8: the output of the result is stdout followed by stderr without its leading
\* and trailing whitespace whenever that is not empty; when it is empty, the output
\* is the error's message if the process failed and "(no output)" if it succeeded.
\* Exit 0 with stdout "On branch main" gives {true, "On branch main"}; exit 1 with
\* stderr "fatal: not a git repository" gives {false, "fatal: not a git repository"}.
C8_OutputIsTrimmedOrFallback == []C8_State

\* C8 witness: stdout "\no" and stderr "o " gave the output "oo".
C8_Witness ==
    /\ probe.pc = "resolved"
    /\ probe.o.stdout = <<"\n", "o">>
    /\ probe.o.stderr = <<"o", " ">>
    /\ probe.result.output = <<"o", "o">>

\* The line that shows the working directory.
IsCwdLine(line) == line # <<>> /\ line[1] = "  (in: "

\* C9 as claimed: every invocation that has called the runner and ended, with or
\* without a folder open, has appended, in this order, the command line, the
\* working directory, the captured output and a blank line.
C9_Original ==
    \A i \in DOMAIN inv :
        (ReachedRunner(i) /\ inv[i].pc = "Completed") =>
            LET lines == LinesOf(i)
                output == Get(inv[i].result).output
            IN  \E a, b, c, d \in DOMAIN lines :
                    /\ a < b /\ b < c /\ c < d
                    /\ lines[a] = <<"> ">> \o displayCmd(inv[i].args)
                    /\ IsCwdLine(lines[b])
                    /\ lines[c] \in {output, <<"ERROR:\n">> \o output}
                    /\ lines[d] = <<>>

C9_State ==
    \A i \in DOMAIN inv :
        LET lines == LinesOf(i)
        IN  IF ~ReachedRunner(i) THEN lines = <<>>
            ELSE IF NoFolder THEN lines = << <<"ERROR: ">> \o NoFolderMsg >>
            ELSE LET started == << <<"> ">> \o displayCmd(inv[i].args),
                                   <<"  (in: ">> \o Get(workspaceFolders)[1] \o <<")">>,
                                   <<"---">> >>
                 IN  /\ inv[i].pc = "Executing" => lines = started
                     /\ inv[i].pc = "Completed" =>
                         LET output == Get(inv[i].result).output
                             shown == IF Get(inv[i].result).success THEN output
                                      ELSE <<"ERROR:\n">> \o output
                         IN  lines = started \o <<shown, <<>> >>

\* C9 (amended): every runner invocation that has a working directory, whether its
\* process succeeds or fails, appends in this order the command line, the working
\* directory, (a "---" rule,) the captured output and a blank line; an invocation
\* with no working directory appends the one line "ERROR: <no folder open>" and
\* nothing else.
C9_LogBlockPerInvocation == []C9_State

\* C9 witness: a failed process has its five lines in the log, and so has a process
\* that succeeded.
C9_Witness ==
    \E i, j \in DOMAIN inv :
        /\ inv[i].pc = "Completed" /\ inv[j].pc = "Completed"
        /\ Len(LinesOf(i)) = 5 /\ Len(LinesOf(j)) = 5
        /\ ~Get(inv[i].result).success
        /\ Get(inv[j].result).success

\* The invocations of step s that have not ended, and the clicks not yet handled.
InFlight(s) ==
    Cardinality({i \in DOMAIN inv : inv[i].stepId = s /\ inv[i].pc # "Completed"})
    + Cardinality({k \in DOMAIN toExtension : toExtension[k].stepId = s})

\* The results of step s on their way to the webview.
ResultsPending(s) ==
    Cardinality({k \in DOMAIN toWebview :
                    toWebview[k].type = "result" /\ toWebview[k].stepId = s})

C10_State ==
    \A s \in DOMAIN card :
        /\ InFlight(s) + ResultsPending(s) <= 1
        /\ card[s].disabled <=> (InFlight(s) + ResultsPending(s) = 1)

C11_Done(i) ==
    /\ i \in DOMAIN inv
    /\ inv[i].pc = "Completed"
    /\ inv[i].result # Undefined
    /\ LET posts == PostsOf(i)
       IN  /\ posts # <<>>
           /\ posts[Len(posts)] = ResultMessage(inv[i].trigger, Get(inv[i].result).success,
                                                Get(inv[i].result).output)

\* C11: when the user answers or dismisses every input box and every process that
\* was started ends, every invocation started by a message with a catalog id
\* eventually completes and posts its result; none waits for input or for its
\* process forever, whatever happened to the invocations before it.
C11_EveryTriggerCompletes ==
    \A i \in 1..MaxInvocations : (i \in DOMAIN inv) ~> C11_Done(i)

\* C11 witness: an invocation has completed with success after an earlier one had
\* failed.
C11_Witness ==
    \E i, j \in DOMAIN inv :
        /\ i < j
        /\ C11_Done(i) /\ C11_Done(j)
        /\ SpawnsOf(i) # <<>> /\ ~Get(inv[i].result).success
        /\ Get(inv[j].result).success

\* The position in the trace of the first call of that kind made for invocation i.
FirstOf(i, kind) ==
    CHOOSE k \in DOMAIN trace :
        /\ trace[k].inv = i /\ trace[k].kind = kind
        /\ \A j \in 1..(k - 1) : ~(trace[j].inv = i /\ trace[j].kind = kind)

C12_State ==
    /\ steps = WALKTHROUGH_STEPS
    /\ \A i \in DOMAIN inv :
        LET template == Shipped(inv[i].trigger).args
        IN  /\ Len(inv[i].args) \in {Len(template), Len(template) + 1}
            /\ SubSeq(inv[i].args, 1, Len(template)) = template
            /\ inv[i].pc = "AwaitingInput" => inv[i].args = template

\* C12: the catalog is at all times what it was at startup, ids and argument
\* templates alike: the answer to an input box is appended to the invocation's own
\* array, so every invocation, also a second one of the same step, starts from the
\* step's template as shipped.
C12_CatalogIsNeverMutated == []C12_State /\ [][steps' = steps]_vars

\* C12 witness: the commit step was run with the answer ";", and then run again with
\* another answer, each time with its own third argument.
C12_Witness ==
    /\ ~NoFolder
    /\ \E i, j \in DOMAIN inv :
        /\ inv[i].stepId = "commit" /\ inv[j].stepId = "commit"
        /\ inv[i].args = <<Arg("commit"), Arg("-m"), <<";">> >>
        /\ inv[j].args = <<Arg("commit"), Arg("-m"), <<" ", ";", " ">> >>
        /\ SpawnsOf(i) # <<>> /\ SpawnsOf(j) # <<>>
        /\ FirstOf(i, "execFile") < FirstOf(j, "showInputBox")

\* The ids looked up: those of the messages, and strings close to an id.
C13_LookupIds ==
    {m.stepId : m \in Messages} \cup {"", "Commit", "commit ", "pul", "check"}

C13_State ==
    /\ \A j, k \in DOMAIN steps : steps[j].id = steps[k].id => j = k
    /\ Cardinality(StepIds) = Len(steps)
    /\ \A s \in C13_LookupIds :
        LET matches == {k \in DOMAIN steps : steps[k].id = s}
        IN  IF matches = {} THEN find(steps, s) = Undefined
            ELSE /\ Cardinality(matches) = 1
                 /\ \A k \in matches : find(steps, s) = Some(steps[k])
    /\ \A i \in DOMAIN inv :
        /\ inv[i].stepId = inv[i].trigger
        /\ Cardinality({k \in DOMAIN steps : steps[k].id = inv[i].trigger}) = 1
    /\ \A k \in DOMAIN dropped :
        dropped[k].type = "runStep" => dropped[k].stepId \notin StepIds

\* C13: no two steps of the catalog have the same id; the lookup of an id of the
\* catalog gives the one step with that id, and the lookup of any other string
\* gives undefined: every invocation runs the one step its message names, and a
\* runStep message is dropped only when its id is not in the catalog.
C13_IdsAreDistinct == []C13_State

\* C13 witness: the last step of the catalog was found by its id, and a message
\* with an id that is not in the catalog was dropped.
C13_Witness ==
    /\ \E i \in DOMAIN inv : inv[i].stepId = "pull" /\ inv[i].args = <<Arg("pull")>>
    /\ \E k \in DOMAIN dropped : dropped[k].stepId \notin StepIds

\* The kinds of call the runner makes.
RunnerKinds == {"appendLine", "show", "showErrorMessage", "execFile"}

C14_State ==
    \A i \in DOMAIN inv :
        LET evs == EventsOf(trace, i)
            IsRunning(e) == e.kind = "postMessage" /\ e.data = RunningMessage(inv[i].stepId)
        IN  /\ \A k \in DOMAIN evs :
                evs[k].kind \in RunnerKinds => \E j \in 1..(k - 1) : IsRunning(evs[j])
            /\ ReachedRunner(i) =>
                /\ \E k \in DOMAIN evs : evs[k].kind \in RunnerKinds
                /\ \E k \in DOMAIN evs :
                    /\ IsRunning(evs[k])
                    /\ \A j \in 1..(k - 1) : evs[j].kind = "showInputBox"

\* C14: every call the runner makes for an invocation (a line appended to the
\* output channel, a request to show it, an error message, the start of the
\* process) comes after the "running" notification of that invocation; for an
\* invocation that reaches the runner that notification is the first thing it does
\* after its input box, if it has one.
C14_RunningBeforeRunner == []C14_State

\* C14 witness: an invocation with an input box is waiting for its process, having
\* posted "running" and then logged three lines and started git.
C14_Witness ==
    \E i \in DOMAIN inv :
        /\ inv[i].pc = "Executing"
        /\ KindsOf(EventsOf(trace, i)) =
            <<"showInputBox", "postMessage", "appendLine", "appendLine", "appendLine",
              "execFile">>

\* The position in the trace of the result posted for invocation i.
ResultAt(i) ==
    CHOOSE k \in DOMAIN trace :
        trace[k].inv = i /\ trace[k].kind = "postMessage" /\ trace[k].data.type = "result"

\* What the runner returned to invocation i, read from what it wrote to the log: the
\* line with the output, or the one no-folder line.
C15_Returned(i) ==
    LET lines == LinesOf(i)
    IN  IF NoFolder THEN [success |-> FALSE, output |-> NoFolderMsg]
        ELSE IF lines[4] # <<>> /\ lines[4][1] = "ERROR:\n"
        THEN [success |-> FALSE, output |-> Tail(lines[4])]
        ELSE [success |-> TRUE, output |-> lines[4]]

C15_State ==
    \A i \in DOMAIN inv :
        (ReachedRunner(i) /\ inv[i].pc = "Completed") =>
            LET posts == PostsOf(i)
                results == SelectSeq(posts, LAMBDA m : m.type = "result")
            IN  /\ inv[i].result = Some(C15_Returned(i))
                /\ results = <<ResultMessage(inv[i].trigger, C15_Returned(i).success,
                                             C15_Returned(i).output)>>
                /\ \A j \in DOMAIN inv :
                    j # i => \A k \in DOMAIN trace :
                        (trace[k].inv = j /\ trace[k].kind = "postMessage")
                            => trace[k].data.stepId = inv[j].trigger

\* C15: an invocation that has called the runner and ended has posted one result:
\* the success flag and the output the runner returned to it (the ones the
\* runner wrote to the log for it), under the step id of its own message, also
\* when other invocations started or ended in between.
C15_ResultIsForwardedVerbatim == []C15_State

\* C15 witness: two steps were waiting for their processes at the same time; the one
\* started last ended first, with success, and the other then failed.
C15_Witness ==
    \E i, j \in DOMAIN inv :
        /\ i < j
        /\ inv[i].stepId # inv[j].stepId
        /\ inv[i].pc = "Completed" /\ inv[j].pc = "Completed"
        /\ SpawnsOf(i) # <<>> /\ SpawnsOf(j) # <<>>
        /\ FirstOf(i, "execFile") < FirstOf(j, "execFile")
        /\ ResultAt(j) < ResultAt(i)
        /\ Get(inv[j].result).success /\ ~Get(inv[i].result).success

\* The output channel: the lines appended, each with the invocation it was appended
\* for, in order.
Log == SelectKind(trace, "appendLine")

IsPrefix(a, b) == Len(a) <= Len(b) /\ a = SubSeq(b, 1, Len(a))

\* The lines a runner call with a process writes: the three at the start, and the
\* two at the end once the process has ended with that result.
C16_Block(i) ==
    << <<"> ">> \o displayCmd(inv[i].args),
       <<"  (in: ">> \o Get(workspaceFolders)[1] \o <<")">>,
       <<"---">> >>
    \o (IF inv[i].pc # "Completed" THEN <<>>
        ELSE LET result == Get(inv[i].result)
             IN  << IF result.success THEN result.output
                    ELSE <<"ERROR:\n">> \o result.output,
                    <<>> >>)

C16_State ==
    /\ \A k \in DOMAIN Log : Log[k].inv \in DOMAIN inv
    /\ \A i \in DOMAIN inv :
        SpawnsOf(i) # <<>> =>
            LinesOf(i) = C16_Block(i)

\* C16: whatever the order in which invocations (of the panel and of the quick
\* action commands) start and their processes end, the lines of an invocation
\* that started a process are in the log in its own order: command line, working
\* directory, rule, then output and blank line once the process has ended; every
\* line of the log is one whole line of one invocation, and a line once in the log
\* stays there, at its place.
C16_LogInterleavesByLine == []C16_State /\ [][IsPrefix(Log, Log')]_vars

\* C16 witness: a quick action command and a step of the panel were waiting for
\* their processes together, and the lines of the one that started last lie between
\* the other's first three lines and its last two.
C16_Witness ==
    /\ Len(inv) >= 2
    /\ inv[1].trigger \in {c.command : c \in QuickActions}
    /\ inv[2].trigger \in ShippedIds
    /\ [k \in DOMAIN Log |-> Log[k].inv] = <<1, 1, 1, 2, 2, 2, 2, 2, 1, 1>>

\* The kinds of the calls the runner has made for invocation i, in order.
RunnerCallsOf(i) ==
    KindsOf(SelectSeq(EventsOf(trace, i), LAMBDA e : e.kind \in RunnerKinds))

\* C17 as claimed: an invocation that has appended lines to the output channel has
\* asked for the channel to be shown, and an invocation that has called the runner
\* and ended has asked for it at least once.
C17_Original ==
    \A i \in DOMAIN inv :
        LET shows == SelectKind(EventsOf(trace, i), "show")
        IN  /\ LinesOf(i) # <<>> => shows # <<>>
            /\ (ReachedRunner(i) /\ inv[i].pc = "Completed") => shows # <<>>

C17_State ==
    \A i \in DOMAIN inv :
        IF ~ReachedRunner(i) THEN RunnerCallsOf(i) = <<>>
        ELSE IF NoFolder
        THEN RunnerCallsOf(i) = <<"appendLine", "show", "showErrorMessage">>
        ELSE IF inv[i].pc = "Executing"
        THEN RunnerCallsOf(i) = <<"appendLine", "appendLine", "appendLine", "execFile">>
        ELSE RunnerCallsOf(i) = <<"appendLine", "appendLine", "appendLine", "execFile",
                                  "appendLine", "show", "appendLine">>

\* C17 (amended): a runner call asks for the output channel to be shown exactly
\* once, when it has its result: right after the line with the output of the
\* process (or with the no-folder error) and before the blank line.  The three
\* lines appended when the process is started come with no such request, so an
\* invocation whose process has not ended has appended lines and asked for nothing.
C17_ShowOncePerResult == []C17_State

\* C17 witness: one invocation has ended after a process that failed and has asked
\* once for the channel, while another has logged its three lines and asked for
\* nothing.
C17_Witness ==
    \E i, j \in DOMAIN inv :
        /\ inv[i].pc = "Completed" /\ SpawnsOf(i) # <<>>
        /\ ~Get(inv[i].result).success
        /\ Len(SelectKind(EventsOf(trace, i), "show")) = 1
        /\ inv[j].pc = "Executing"
        /\ Len(LinesOf(j)) = 3
        /\ SelectKind(EventsOf(trace, j), "show") = <<>>

C18_State ==
    \A i \in DOMAIN inv :
        LET evs == EventsOf(trace, i)
            IsStatus(e) == e.kind = "postMessage" /\ e.data.type = "status"
        IN  /\ Cancelled(i) =>
                /\ \A k \in DOMAIN evs : ~IsStatus(evs[k])
                /\ \E k \in DOMAIN evs :
                    evs[k] = postMessage(i, ResultMessage(inv[i].stepId, FALSE, CancelledMsg))
            /\ \A k \in DOMAIN evs :
                IsStatus(evs[k]) =>
                    /\ evs[k].data = RunningMessage(inv[i].stepId)
                    /\ ReachedRunner(i)
                    /\ k < Len(evs)
                    /\ evs[k + 1].kind = "appendLine"

\* C18: an invocation whose prompt was cancelled or answered blank has posted its
\* result and no status message at all; an invocation that has posted "running"
\* is one that called the runner right after it (the next thing it did is the
\* runner's first line in the log).
C18_NoRunningOnCancel == []C18_State

\* C18 witness: a prompt was dismissed with Escape, and another invocation has
\* posted "running".
C18_Witness ==
    \E i, j \in DOMAIN inv :
        /\ Cancelled(i) /\ inv[i].answer = Undefined
        /\ Len(PostsOf(i)) = 1
        /\ PostsOf(j) # <<>> /\ PostsOf(j)[1].type = "status"

\* C19 as claimed: a gitHelper.commit whose input box was dismissed, or answered by
\* an empty or all-whitespace message, starts no process and writes nothing to the
\* output channel; with any other message it calls the runner with exactly
\* ["commit", "-m", message].
C19_Original ==
    \A i \in DOMAIN inv :
        (inv[i].trigger = "gitHelper.commit" /\ inv[i].pc # "CommandAwaitingInput") =>
            IF inv[i].answer = Undefined \/ Blank(Get(inv[i].answer))
            THEN SpawnsOf(i) = <<>> /\ LinesOf(i) = <<>>
            ELSE /\ inv[i].args = <<Arg("commit"), Arg("-m"), Get(inv[i].answer)>>
                 /\ \A k \in DOMAIN SpawnsOf(i) : SpawnsOf(i)[k].args = inv[i].args

=============================================================================
